---------------------------- MODULE Spec2Model ----------------------------
(* FastFreeze `run` command: the supervisor that decides between a cold   *)
(* start and a restore, drives the pipeline under the global              *)
(* checkpoint/restore lock, and then assumes the init role for the        *)
(* application (src/src/cli/run.rs).                                      *)
EXTENDS Integers, Sequences, FiniteSets, TLC

(* ------------------------------------------------------------------ *)
(* Program constants                                                    *)
(* ------------------------------------------------------------------ *)
APP_ROOT_PID == 1000
MIN_PID == 300
EXIT_CODE_RESTORE_FAILURE == 171
EXIT_CODE_FAILURE == 170

SIGINT  == 2
SIGILL  == 4
SIGBUS  == 7
SIGFPE  == 8
SIGKILL == 9
SIGSEGV == 11
SIGTERM == 15
SIGCHLD == 17
SIGSTOP == 19
NumSignals == 31
(* the first real-time signal: not a member of nix's Signal enum *)
SIGRTMIN == 34

(* size of the read buffer of the control daemon *)
BufSize == 1024

(* Signal::iterator(): the signals of the platform set *)
Signals == 1..NumSignals
(* signal_hook::FORBIDDEN *)
FORBIDDEN == {SIGKILL, SIGSTOP, SIGILL, SIGFPE, SIGSEGV}

(* ------------------------------------------------------------------ *)
(* Bounds of the model                                                  *)
(* ------------------------------------------------------------------ *)
MaxClock == 1
MaxShards == 2
MaxPayload == 2
(* acknowledgements a connection's socket buffer holds unread *)
SockBufAcks == 1

Sups == {"s1", "s2"}
NoSup == "none"
Urls == {"file:/img1", "file:/img2"}
Paths == {"/a", "/b", "/c"}
(* --preserve-path values as parsed (a Vec, duplicates possible) *)
PathArgs == {<<"/a", "/b">>, <<"/b", "/c", "/b">>}
SupPids == {1, MIN_PID + 1, APP_ROOT_PID, APP_ROOT_PID + 1}
(* the positional <app_args...>: none given, or a program name *)
AppArgs == {<< >>, <<"app">>}
ExpectedVersion == "v_expected"
Versions == {ExpectedVersion, "v_other"}
(* WEXITSTATUS: the low 8 bits of the status *)
ExitStatuses == 0..255

NoConfig == [image_url |-> "none", preserved_paths |-> {}, app_clock |-> -1]
NoImage == [at |-> "none", version |-> "none", num_shards |-> 0,
            config |-> NoConfig, floor |-> -1]
NoArgs == [image_url |-> "none", no_restore |-> FALSE,
           allow_bad_image_version |-> FALSE, preserved_paths |-> << >>,
           pid |-> 0, app_args |-> << >>]
NoMode == [kind |-> "none", shard_download_cmds |-> << >>]
NoResult == [ok |-> FALSE, exit_code |-> -1]
NoExitCode == -1
NoStatus == [kind |-> "none", pid |-> 0, code |-> 0]
OtherPid == APP_ROOT_PID + 7
NoChild == [pid |-> 0, session |-> "none"]

VARIABLES
    pc,          \* position of each supervisor in Run::run
    args,        \* the Run struct of each invocation (and its PID)
    run_mode,    \* RunMode chosen by each invocation
    handlers,    \* signals with a forwarding handler registered
    sig_recv,    \* signal delivered to each supervisor, being handled (0: none)
    wait_status, \* what wait() last returned in monitor_app
    result,      \* outcome of a finished invocation (process exit code)
    lock,        \* holder of the global checkpoint/restore lock
    app_config,  \* AppConfig stored at APP_CONFIG_PATH
    image,       \* the image in the store (manifest and filesystem tar)
    restored,    \* AppConfig as loaded after the untar stage, per supervisor
    fetched,     \* outcome of the manifest fetch of each invocation
    app,         \* occupant of APP_ROOT_PID
    fwd,         \* last signal a forwarding handler sent to APP_ROOT_PID
    steps,       \* statements of restore()/run_from_scratch() completed so far
    pgrp,        \* members of the ProcessGroup of restore(), per supervisor
    child,       \* the process spawn_with_pid() created in run_from_scratch()
    daemon,      \* position of the control daemon thread (main_loop)
    poller,      \* keys registered in the daemon's Poller
    stop_pipe,   \* write end of the daemon's stop pipe
    conn,        \* connections of clients to the control socket
    cur,         \* the connection event main_loop is handling, with its buf
    cps,         \* do_checkpoint() calls made for each connection
    cp,          \* the Checkpoint struct of the last do_checkpoint() call
    ns_last_pid  \* /proc/sys/kernel/ns_last_pid: the PID last handed out to a
                 \* supervisor or an application root, or written by a helper

(* locals of the restore and cold-start pipelines *)
pipeline == <<steps, pgrp, child>>

(* the kernel's PID allocator, as far as PID control goes *)
kernel == <<ns_last_pid>>

(* state of the control daemon and of its clients *)
control == <<daemon, poller, stop_pipe, conn, cur, cps, cp>>

vars == <<pc, args, run_mode, handlers, sig_recv, wait_status, result, lock, app_config,
          image, restored, fetched, app, fwd, pipeline, control, kernel>>

(* ------------------------------------------------------------------ *)
(* Pure helpers                                                         *)
(* ------------------------------------------------------------------ *)

(* `x as u8` *)
AsU8(x) == x % 256

(* preserved_paths.into_iter().collect(): Vec<PathBuf> -> HashSet *)
CollectPaths(v) == {v[i] : i \in 1..Len(v)}

(* mutant: the caller's paths replace those of the image *)
ExtendPaths_Overwrite(old, more) == more

(* config.preserved_paths.extend(preserved_paths) *)
ExtendPaths(old, more) == old \cup more

(* An anyhow error, reduced to the ExitCode found in its context chain *)
Error == [exit_code |-> NoExitCode]

(* e.context(ExitCode(c)): the outermost context is found first *)
WithExitCode(e, c) == [e EXCEPT !.exit_code = c]

(* ExitCode::from_error: the ExitCode of the chain, else the default *)
ExitCodeFromError(e) ==
    IF e.exit_code = NoExitCode THEN EXIT_CODE_FAILURE ELSE e.exit_code

Failed(e) == [ok |-> FALSE, exit_code |-> ExitCodeFromError(e)]
Succeeded == [ok |-> TRUE, exit_code |-> 0]
Killed == [ok |-> FALSE, exit_code |-> NoExitCode]

(* mutant: every non-zero status reported as 1 *)
ExitedCode_Flattened(exit_status) == IF exit_status = 0 THEN 0 ELSE 1

(* ExitCode(exit_status as u8) *)
ExitedCode(exit_status) == AsU8(exit_status)

(* mutant: the signal number without the 128 offset *)
SignaledCode_NoOffset(sig) == AsU8(sig)

(* ExitCode(128 + signal as u8): u8 arithmetic *)
SignaledCode(sig) == (128 + AsU8(sig)) % 256

(* mutant: only SIGCHLD is skipped *)
IsForwarded_OnlyChld(sig) == sig # SIGCHLD

(* the filter of the registration loop of monitor_app *)
IsForwarded(sig) == ~(sig = SIGCHLD \/ sig \in FORBIDDEN)

ForwardedSignals == {sig \in Signals : IsForwarded(sig)}

(* the handlers in place when signal_hook::register(..)? fails for      *)
(* failed_at: the loop goes through the signals in increasing order     *)
RegisteredBefore(failed_at) == {sig \in ForwardedSignals : sig < failed_at}

(* mutant: the handler signals the process group of APP_ROOT_PID *)
ForwardKill_ToGroup(sig) == [call |-> "killpg", pid |-> APP_ROOT_PID, sig |-> sig]

(* the closure registered for sig: kill(Pid::from_raw(APP_ROOT_PID), sig) *)
ForwardKill(sig) == [call |-> "kill", pid |-> APP_ROOT_PID, sig |-> sig]

(* std::process::id() > APP_ROOT_PID as u32 *)
PidTooHigh(pid) == pid > APP_ROOT_PID

(* ImageManifest::fetch_from_store, when the transport works *)
FetchFromStore(img, url, allow_bad_image_version) ==
    IF img = NoImage \/ img.at # url THEN [kind |-> "NotFound", num_shards |-> 0]
    ELSE IF img.version # ExpectedVersion /\ ~allow_bad_image_version
         THEN [kind |-> "VersionMismatch", num_shards |-> 0]
         ELSE [kind |-> "Some", num_shards |-> img.num_shards]

(* shard::download_cmds: one shell command per shard of the manifest *)
DownloadCmds(manifest, url) == [i \in 1..manifest.num_shards |-> <<url, i>>]

FromScratch == [kind |-> "FromScratch", shard_download_cmds |-> << >>]

(* mutant: any manifest found is restored, whatever its version *)
DetermineRunMode_AnyVersion(transport, img, url, allow_bad_image_version) ==
    IF transport # "ok"
    THEN [ok |-> FALSE, fetch |-> transport, mode |-> NoMode]
    ELSE LET fetch_result == FetchFromStore(img, url, allow_bad_image_version)
         IN [ok |-> TRUE, fetch |-> fetch_result.kind,
             mode |-> IF fetch_result.kind # "NotFound"
                      THEN [kind |-> "Restore",
                            shard_download_cmds |-> DownloadCmds(fetch_result, url)]
                      ELSE FromScratch]

(* determine_run_mode: `transport` is what the store lookup and the     *)
(* manifest fetch run into ("store_err", "fetch_err" or "ok")           *)
DetermineRunMode(transport, img, url, allow_bad_image_version) ==
    IF transport # "ok"
    THEN [ok |-> FALSE, fetch |-> transport, mode |-> NoMode]
    ELSE LET fetch_result == FetchFromStore(img, url, allow_bad_image_version)
         IN [ok |-> TRUE, fetch |-> fetch_result.kind,
             mode |-> IF fetch_result.kind = "Some"
                      THEN [kind |-> "Restore",
                            shard_download_cmds |-> DownloadCmds(fetch_result, url)]
                      ELSE FromScratch]

(* AppConfig::save: File::create then a full write; either may fail *)
BrokenConfig == [image_url |-> "broken", preserved_paths |-> {}, app_clock |-> -1]
SaveOutcomes(old, new) ==
    {[ok |-> TRUE, file |-> new], [ok |-> FALSE, file |-> old],
     [ok |-> FALSE, file |-> BrokenConfig]}

ValidConfig(c) == c # NoConfig /\ c # BrokenConfig

NoApp == [state |-> "none", parent |-> "none"]

(* ------------------------------------------------------------------ *)
(* Control socket: data                                                 *)
(* ------------------------------------------------------------------ *)
Conns == {"c1", "c2"}

(* the byte a client repeats in a request of n bytes ('N' or 'o') *)
Filler(n) == IF n % 2 = 1 THEN 78 ELSE 111

(* requests of 1..MaxPayload bytes, and one that fills the buffer *)
Requests ==
    {[i \in 1..n |-> Filler(n)] : n \in (1..MaxPayload) \cup {BufSize}}

(* let mut buf = [0u8; 1024] *)
ZeroBuf == [i \in 1..BufSize |-> 0]

NoConn == [state |-> "none", peer |-> "open", inbox |-> <<>>, resp |-> <<>>,
           sent |-> <<>>]
NoCur == [key |-> "none", buf |-> <<>>, size |-> 0]

(* mutant: the application is stopped by the checkpoint *)
DefaultCheckpoint_StopsApp ==
    [image_url |-> "None", preserved_paths |-> {}, leave_running |-> FALSE,
     num_shards |-> 1, cpu_budget |-> "Medium", passphrase_file |-> "None",
     verbose |-> 0, app_name |-> "None"]

(* the Checkpoint struct main_loop builds for every request *)
DefaultCheckpoint ==
    [image_url |-> "None", preserved_paths |-> {}, leave_running |-> TRUE,
     num_shards |-> 1, cpu_budget |-> "Medium", passphrase_file |-> "None",
     verbose |-> 0, app_name |-> "None"]

NoCheckpoint ==
    [image_url |-> "none", preserved_paths |-> {}, leave_running |-> FALSE,
     num_shards |-> 0, cpu_budget |-> "none", passphrase_file |-> "none",
     verbose |-> 0, app_name |-> "none"]

(* connection.read(&mut buf): what the socket hands over *)
Read(c, buf) ==
    IF c.peer = "reset"
    THEN [ok |-> FALSE, size |-> 0, buf |-> buf, rest |-> <<>>]
    ELSE LET size == IF Len(c.inbox) < Len(buf) THEN Len(c.inbox) ELSE Len(buf)
         IN [ok |-> TRUE, size |-> size,
             buf |-> [i \in 1..Len(buf) |-> IF i <= size THEN c.inbox[i]
                                                        ELSE buf[i]],
             rest |-> SubSeq(c.inbox, size + 1, Len(c.inbox))]

(* mutant: an empty read is taken for a request *)
OnRead_EmptyIsRequest(r) == IF r.ok THEN "checkpoint" ELSE "remove"

(* match connection.read(&mut buf) { Ok(size) => if size != 0 {..} .. } *)
OnRead(r) == IF r.ok /\ r.size # 0 THEN "checkpoint" ELSE "remove"

(* connection.write_all(&mut buf): the bytes handed to the socket *)
Response(buf, size) == buf

(* room in the socket buffer of a connection whose peer leaves the      *)
(* acknowledgements unread                                              *)
SockBufSize == SockBufAcks * BufSize

(* requests a client sends over one connection without reading *)
MaxRequests == SockBufAcks + 1

(* write_all() on the blocking socket goes through at once when the     *)
(* buffer has room for buf, or fails at once when the peer is gone      *)
CanWrite(c) == c.peer # "open" \/ Len(c.resp) + BufSize <= SockBufSize

(* ------------------------------------------------------------------ *)
(* Initial state                                                        *)
(* ------------------------------------------------------------------ *)
Init ==
    /\ pc = [s \in Sups |-> "idle"]
    /\ args = [s \in Sups |-> NoArgs]
    /\ run_mode = [s \in Sups |-> NoMode]
    /\ handlers = [s \in Sups |-> {}]
    /\ sig_recv = [s \in Sups |-> 0]
    /\ wait_status = [s \in Sups |-> NoStatus]
    /\ result = [s \in Sups |-> NoResult]
    /\ restored = [s \in Sups |-> NoConfig]
    /\ fetched = [s \in Sups |-> "none"]
    /\ lock = NoSup
    /\ app_config = NoConfig
    /\ image = NoImage
    /\ app = NoApp
    /\ fwd = 0
    /\ steps = [s \in Sups |-> <<>>]
    /\ pgrp = [s \in Sups |-> {}]
    /\ child = [s \in Sups |-> NoChild]
    /\ daemon = "off"
    /\ poller = {}
    /\ stop_pipe = "open"
    /\ conn = [c \in Conns |-> NoConn]
    /\ cur = NoCur
    /\ cps = [c \in Conns |-> 0]
    /\ cp = NoCheckpoint
    /\ ns_last_pid = 0

(* ------------------------------------------------------------------ *)
(* Steps shared by the actions                                          *)
(* ------------------------------------------------------------------ *)
Goto(s, p) == pc' = [pc EXCEPT ![s] = p]

(* The process ends: the lock guard is dropped, children are orphaned *)
Finish(s, res, new_app) ==
    /\ pc' = [pc EXCEPT ![s] = "done"]
    /\ result' = [result EXCEPT ![s] = res]
    /\ fwd' = IF new_app.state = "running" THEN fwd ELSE 0
    /\ lock' = IF lock = s THEN NoSup ELSE lock
    /\ app' = IF new_app.parent = s THEN [new_app EXCEPT !.parent = "init"]
              ELSE new_app

(* panic!: the thread unwinds and the process ends; Run::run returns   *)
(* no Result, the lock guard is dropped on the way out                  *)
Unwind(s) ==
    /\ pc' = [pc EXCEPT ![s] = "panicked"]
    /\ lock' = IF lock = s THEN NoSup ELSE lock

(* A step of the locked section that touches nothing but the position *)
PlainStep(s, from, to, e) ==
    /\ pc[s] = from
    /\ \/ /\ Goto(s, to)
          /\ UNCHANGED <<result, lock, app, fwd>>
       \/ Finish(s, Failed(e), app)
    /\ UNCHANGED <<args, run_mode, handlers, sig_recv, wait_status, app_config, image,
                   restored, fetched, pipeline, control,
                   kernel>>

(* ------------------------------------------------------------------ *)
(* Run::run                                                             *)
(* ------------------------------------------------------------------ *)
RunArgs ==
    [image_url : Urls, no_restore : BOOLEAN,
     allow_bad_image_version : BOOLEAN, preserved_paths : PathArgs,
     pid : SupPids, app_args : AppArgs]

(* A new invocation of `fastfreeze run`. The kernel hands it the next   *)
(* free PID above ns_last_pid: MIN_PID + 1 right after the helper wrote *)
(* MIN_PID, any PID once other processes were created in between, 1 in *)
(* a fresh PID namespace                                                *)
Start(s, a) ==
    /\ pc[s] \in {"idle", "done", "panicked"}
    /\ pc' = [pc EXCEPT ![s] = "lock"]
    /\ args' = [args EXCEPT ![s] = a]
    /\ run_mode' = [run_mode EXCEPT ![s] = NoMode]
    /\ handlers' = [handlers EXCEPT ![s] = {}]
    /\ sig_recv' = [sig_recv EXCEPT ![s] = 0]
    /\ wait_status' = [wait_status EXCEPT ![s] = NoStatus]
    /\ result' = [result EXCEPT ![s] = NoResult]
    /\ restored' = [restored EXCEPT ![s] = NoConfig]
    /\ fetched' = [fetched EXCEPT ![s] = "none"]
    /\ steps' = [steps EXCEPT ![s] = <<>>]
    /\ pgrp' = [pgrp EXCEPT ![s] = {}]
    /\ child' = [child EXCEPT ![s] = NoChild]
    /\ ns_last_pid' = a.pid
    /\ UNCHANGED <<lock, app_config, image, app, fwd, control>>

(* with_checkpoint_restore_lock: blocks while another holder exists *)
AcquireLock(s) ==
    /\ pc[s] = "lock"
    /\ \/ /\ lock = NoSup
          /\ lock' = s
          /\ Goto(s, "smoke")
          /\ UNCHANGED <<result, app, fwd>>
       \/ Finish(s, Failed(Error), app)
    /\ UNCHANGED <<args, run_mode, handlers, sig_recv, wait_status, app_config, image,
                   restored, fetched, pipeline, control,
                   kernel>>

(* criu::spawn_smoke_check()?.wait_for_success()? *)
SmokeCheck(s) == PlainStep(s, "smoke", "pid_check", Error)

(* set_ns_last_pid(pid): the privileged helper writes pid to            *)
(* /proc/sys/kernel/ns_last_pid, or fails and leaves it as it was       *)
SetNsLastPid(last_pid, pid, helper_ok) == IF helper_ok THEN pid ELSE last_pid

(* mutant: the check lowers ns_last_pid and lets the run go on *)
EnsureNonConflictingPid_GoesOn(s) ==
    /\ pc[s] = "pid_check"
    /\ IF PidTooHigh(args[s].pid)
       THEN \E helper_ok \in BOOLEAN :
               ns_last_pid' = SetNsLastPid(ns_last_pid, MIN_PID, helper_ok)
       ELSE UNCHANGED ns_last_pid
    /\ Goto(s, "prepare")
    /\ UNCHANGED <<result, lock, app, fwd>>
    /\ UNCHANGED <<args, run_mode, handlers, sig_recv, wait_status, app_config, image,
                   restored, fetched, pipeline, control>>

(* ensure_non_conflicting_pid()?: when the PID is too high,             *)
(* set_ns_last_pid(MIN_PID)? and then bail!("Current pid is too high.   *)
(* Re-run the same command again.")                                     *)
EnsureNonConflictingPid(s) ==
    /\ pc[s] = "pid_check"
    /\ IF PidTooHigh(args[s].pid)
       THEN \E helper_ok \in BOOLEAN :
               /\ ns_last_pid' = SetNsLastPid(ns_last_pid, MIN_PID, helper_ok)
               /\ Finish(s, Failed(Error), app)
       ELSE /\ Goto(s, "prepare")
            /\ UNCHANGED <<result, lock, app, fwd, ns_last_pid>>
    /\ UNCHANGED <<args, run_mode, handlers, sig_recv, wait_status, app_config, image,
                   restored, fetched, pipeline, control>>

(* store::from_url(&image_url)?.prepare(true)? *)
PrepareStore(s) == PlainStep(s, "prepare", "run_mode", Error)

NextPc(mode) == IF mode.kind = "Restore" THEN "r_spawn" ELSE "c_save"

Transports == {"ok", "store_err", "fetch_err"}

(* errors of determine_run_mode: .context(ExitCode(EXIT_CODE_RESTORE_FAILURE)) *)
RunModeContext(e) == WithExitCode(e, EXIT_CODE_RESTORE_FAILURE)

(* mutant: the error of restore() is passed on as it is *)
RestoreContext_Missing(e) == e

(* errors of restore(): .context(ExitCode(EXIT_CODE_RESTORE_FAILURE)) *)
RestoreContext(e) == WithExitCode(e, EXIT_CODE_RESTORE_FAILURE)

(* errors of run_from_scratch() get no exit code of their own *)
FromScratchContext(e) == e

(* mutant: the flag is ignored *)
SkipsManifest_Never(no_restore) == FALSE

(* `if no_restore`: the manifest is not looked at *)
SkipsManifest(no_restore) == no_restore

(* let run_mode = if no_restore { FromScratch }                         *)
(*                else { determine_run_mode(..).context(ExitCode(171))? } *)
ChooseRunMode(s) ==
    /\ pc[s] = "run_mode"
    /\ IF SkipsManifest(args[s].no_restore)
       THEN /\ run_mode' = [run_mode EXCEPT ![s] = FromScratch]
            /\ Goto(s, NextPc(FromScratch))
            /\ UNCHANGED <<result, lock, app, fetched, fwd>>
       ELSE \E transport \in Transports :
              LET r == DetermineRunMode(transport, image, args[s].image_url,
                                        args[s].allow_bad_image_version)
              IN /\ fetched' = [fetched EXCEPT ![s] = r.fetch]
                 /\ IF r.ok
                    THEN /\ run_mode' = [run_mode EXCEPT ![s] = r.mode]
                         /\ Goto(s, NextPc(r.mode))
                         /\ UNCHANGED <<result, lock, app, fwd>>
                    ELSE /\ Finish(s, Failed(RunModeContext(Error)), app)
                         /\ UNCHANGED run_mode
    /\ UNCHANGED <<args, handlers, sig_recv, wait_status, app_config, image,
                   restored, pipeline, control,
                   kernel>>

(* ------------------------------------------------------------------ *)
(* restore()                                                            *)
(* ------------------------------------------------------------------ *)

(* A process handed to the ProcessGroup with join() or join_as_daemon() *)
Member(kind, shard, is_daemon) ==
    [kind |-> kind, shard |-> shard, daemon |-> is_daemon, state |-> "running"]

(* img_streamer.join(&mut pgrp) *)
Streamer == Member("streamer", 0, FALSE)

(* Command::new_shell(&shard_cmd)..spawn()?.join(&mut pgrp) *)
Downloader(i) == Member("downloader", i, FALSE)

(* mutant: the PID server joined as a monitored member *)
PidServer_Monitored == Member("set_ns_last_pid", 0, FALSE)

(* spawn_set_ns_last_pid_server()?.join_as_daemon(&mut pgrp) *)
PidServer == Member("set_ns_last_pid", 0, TRUE)

(* criu::spawn_restore(leave_stopped)?.join(&mut pgrp) *)
Criu == Member("criu", 0, FALSE)

Monitored(g) == {m \in g : ~m.daemon}
Running(g) == {m \in g : m.state = "running"}

(* a member is reaped with the given outcome *)
Reap(g, m, st) == (g \ {m}) \cup {[m EXCEPT !.state = st]}

(* SIGTERM, then SIGKILL, to every member still running; all are drained *)
Terminate(g) ==
    {IF m.state = "running" THEN [m EXCEPT !.state = "killed"] ELSE m : m \in g}

(* A statement of a pipeline ending in `?`: on success it is recorded   *)
(* and the processes it spawned join the group; on failure the function *)
(* returns and the group is dropped                                     *)
PipeStep(s, from, to, e, joined) ==
    /\ pc[s] = from
    /\ \/ /\ Goto(s, to)
          /\ steps' = [steps EXCEPT ![s] = Append(@, from)]
          /\ pgrp' = [pgrp EXCEPT ![s] = @ \cup joined]
          /\ UNCHANGED <<result, lock, app, fwd>>
       \/ /\ Finish(s, Failed(e), app)
          /\ pgrp' = [pgrp EXCEPT ![s] = Terminate(@)]
          /\ UNCHANGED steps
    /\ UNCHANGED <<args, run_mode, handlers, sig_recv, wait_status, app_config, image,
                   restored, fetched, child, control,
                   kernel>>

RestoreStep(s, from, to, joined) ==
    PipeStep(s, from, to, RestoreContext(Error), joined)

(* ProcessGroup::new, ImageStreamer::spawn_serve, the shard downloaders *)
RestoreSpawn(s) ==
    RestoreStep(s, "r_spawn", "r_untar",
                {Streamer} \cup {Downloader(i) :
                                  i \in 1..Len(run_mode[s].shard_download_cmds)})

(* mutant: untar is spawned but its exit is not waited for *)
RestoreUntar_NotWaited(s) ==
    /\ pc[s] = "r_untar"
    /\ \/ /\ image # NoImage
          /\ app_config' = image.config
          /\ steps' = [steps EXCEPT ![s] = Append(@, "r_untar")]
       \/ UNCHANGED <<app_config, steps>>
    /\ Goto(s, "r_config")
    /\ UNCHANGED <<result, lock, app, fwd, pgrp>>
    /\ UNCHANGED <<args, run_mode, handlers, sig_recv, wait_status, image, restored,
                   fetched, child, control,
                   kernel>>

(* spawn_untar(..)?.wait_for_success()?: the image's files are on disk *)
RestoreUntar(s) ==
    /\ pc[s] = "r_untar"
    /\ \/ /\ image # NoImage
          /\ app_config' = image.config
          /\ Goto(s, "r_config")
          /\ steps' = [steps EXCEPT ![s] = Append(@, "r_untar")]
          /\ UNCHANGED <<result, lock, app, fwd, pgrp>>
       \/ /\ Finish(s, Failed(RestoreContext(Error)), app)
          /\ pgrp' = [pgrp EXCEPT ![s] = Terminate(@)]
          /\ UNCHANGED <<app_config, steps>>
    /\ UNCHANGED <<args, run_mode, handlers, sig_recv, wait_status, image, restored,
                   fetched, child, control,
                   kernel>>

(* mutant: the image_url of the image is kept *)
RestoredConfig_KeepsUrl(config, image_url, preserved_paths) ==
    [config EXCEPT !.preserved_paths = ExtendPaths(@, preserved_paths)]

(* the config restore() saves: image_url overwritten, paths extended *)
RestoredConfig(config, image_url, preserved_paths) ==
    [config EXCEPT !.image_url = image_url,
                   !.preserved_paths = ExtendPaths(@, preserved_paths)]

(* AppConfig::restore()?, the two updates, config.save()? *)
RestoreConfig(s) ==
    /\ pc[s] = "r_config"
    /\ \/ /\ ValidConfig(app_config)
          /\ \E o \in SaveOutcomes(app_config,
                        RestoredConfig(app_config, args[s].image_url,
                                       CollectPaths(args[s].preserved_paths))) :
                /\ app_config' = o.file
                /\ restored' = [restored EXCEPT ![s] = app_config]
                /\ IF o.ok
                   THEN /\ Goto(s, "r_timespec")
                        /\ steps' = [steps EXCEPT ![s] = Append(@, "r_config")]
                        /\ UNCHANGED <<result, lock, app, fwd, pgrp>>
                   ELSE /\ Finish(s, Failed(RestoreContext(Error)), app)
                        /\ pgrp' = [pgrp EXCEPT ![s] = Terminate(@)]
                        /\ UNCHANGED steps
       \/ /\ Finish(s, Failed(RestoreContext(Error)), app)
          /\ pgrp' = [pgrp EXCEPT ![s] = Terminate(@)]
          /\ UNCHANGED <<app_config, restored, steps>>
    /\ UNCHANGED <<args, run_mode, handlers, sig_recv, wait_status, image, fetched,
                   child, control,
                   kernel>>

(* adjust_timespecs(config.app_clock)? *)
RestoreTimespec(s) == RestoreStep(s, "r_timespec", "r_pidsrv", {})

(* spawn_set_ns_last_pid_server()?.join_as_daemon(&mut pgrp) *)
RestorePidServer(s) == RestoreStep(s, "r_pidsrv", "r_stats", {PidServer})

(* img_streamer.progress.wait_for_stats()? *)
RestoreStats(s) == RestoreStep(s, "r_stats", "r_socket", {})

(* img_streamer.progress.wait_for_socket_init()? *)
RestoreSocket(s) == RestoreStep(s, "r_socket", "r_criu", {})

(* criu::spawn_restore(leave_stopped)?.join(&mut pgrp) *)
RestoreCriu(s) == RestoreStep(s, "r_criu", "r_wait", {Criu})

(* APP_ROOT_PID is free for a new application root *)
PidFree(s) == app.state = "none" /\ args[s].pid # APP_ROOT_PID

(* mutant: the lock guard outlives the closure *)
LeaveLock_KeepsLock(s) ==
    /\ Goto(s, "ready")
    /\ steps' = [steps EXCEPT ![s] = @ \o <<pc[s], "app_ready">>]
    /\ lock' = lock
    /\ args' = [args EXCEPT ![s] = [NoArgs EXCEPT !.no_restore = args[s].no_restore]]
    /\ run_mode' = [run_mode EXCEPT ![s] = NoMode]
    /\ restored' = [restored EXCEPT ![s] = NoConfig]
    /\ fetched' = [fetched EXCEPT ![s] = "none"]

(* The last statement of the pipeline succeeded: "Application is ready" *)
(* is logged and the closure of with_checkpoint_restore_lock returns    *)
(* Ok: its locals (image_url and preserved_paths were moved into the    *)
(* pipeline) are dropped and the lock guard is released                 *)
LeaveLock(s) ==
    /\ Goto(s, "ready")
    /\ steps' = [steps EXCEPT ![s] = @ \o <<pc[s], "app_ready">>]
    /\ lock' = NoSup
    /\ args' = [args EXCEPT ![s] = [NoArgs EXCEPT !.no_restore = args[s].no_restore]]
    /\ run_mode' = [run_mode EXCEPT ![s] = NoMode]
    /\ restored' = [restored EXCEPT ![s] = NoConfig]
    /\ fetched' = [fetched EXCEPT ![s] = "none"]

(* mutant: the restored application is left behind *)
KillAppGroup_Skipped(occupant) == occupant

(* let _ = killpg(Pid::from_raw(APP_ROOT_PID), signal::SIGKILL) *)
KillAppGroup(occupant) == NoApp

(* pgrp.wait_for_success(), one member reaped at a time; on failure     *)
(* killpg(APP_ROOT_PID, SIGKILL) and the error is returned. The restore *)
(* engine exits with 0 once the application runs again at APP_ROOT_PID  *)
RestoreWait(s) ==
    /\ pc[s] = "r_wait"
    /\ \E m \in Running(pgrp[s]) :
         IF m.daemon
         THEN \* a daemon ended by itself: its status is discarded
              /\ pgrp' = [pgrp EXCEPT ![s] = Reap(@, m, "exited_err")]
              /\ UNCHANGED <<pc, args, run_mode, restored, fetched, steps,
                             result, lock, app, fwd, ns_last_pid>>
         ELSE \/ \* m exited with status 0
                 LET g == Reap(pgrp[s], m, "exited_ok")
                 IN /\ m = Criu => PidFree(s)
                    /\ app' = IF m = Criu
                              THEN [state |-> "running", parent |-> s]
                              ELSE app
                    /\ ns_last_pid' = IF m = Criu THEN APP_ROOT_PID
                                      ELSE ns_last_pid
                    /\ IF Running(Monitored(g)) = {}
                       THEN /\ pgrp' = [pgrp EXCEPT ![s] = Terminate(g)]
                            /\ LeaveLock(s)
                            /\ UNCHANGED <<result, fwd>>
                       ELSE /\ pgrp' = [pgrp EXCEPT ![s] = g]
                            /\ UNCHANGED <<pc, args, run_mode, restored, fetched,
                                           steps, result, lock, fwd>>
              \/ \* m failed: the first failure ends the wait
                 /\ pgrp' = [pgrp EXCEPT ![s] =
                                Terminate(Reap(@, m, "exited_err"))]
                 /\ Finish(s, Failed(RestoreContext(Error)), KillAppGroup(app))
                 /\ UNCHANGED <<args, run_mode, restored, fetched, steps,
                                ns_last_pid>>
    /\ UNCHANGED <<handlers, sig_recv, wait_status, app_config, image, child,
                   control>>

(* ------------------------------------------------------------------ *)
(* run_from_scratch()                                                   *)
(* ------------------------------------------------------------------ *)
ScratchStep(s, from, to) == PipeStep(s, from, to, FromScratchContext(Error), {})

(* mutant: the application clock does not start at 0 *)
InitialConfig_ClockOne(image_url, preserved_paths) ==
    [image_url |-> image_url, preserved_paths |-> preserved_paths,
     app_clock |-> 1]

(* the AppConfig run_from_scratch() saves *)
InitialConfig(image_url, preserved_paths) ==
    [image_url |-> image_url, preserved_paths |-> preserved_paths,
     app_clock |-> 0]

ScratchSave(s) ==
    /\ pc[s] = "c_save"
    /\ \E o \in SaveOutcomes(app_config,
                  InitialConfig(args[s].image_url,
                                CollectPaths(args[s].preserved_paths))) :
          /\ app_config' = o.file
          /\ IF o.ok
             THEN /\ Goto(s, "c_clock")
                  /\ steps' = [steps EXCEPT ![s] = Append(@, "c_save")]
                  /\ UNCHANGED <<result, lock, app, fwd>>
             ELSE /\ Finish(s, Failed(FromScratchContext(Error)), app)
                  /\ UNCHANGED steps
    /\ UNCHANGED <<args, run_mode, handlers, sig_recv, wait_status, image, restored,
                   fetched, pgrp, child, control,
                   kernel>>

(* virt::time::ConfigPath::default().write_intial()? *)
ScratchClock(s) == ScratchStep(s, "c_clock", "c_virt")

(* virt::enable_system_wide_virtualization()? *)
ScratchVirt(s) == ScratchStep(s, "c_virt", "c_spawn")

(* mutant: the error of setsid() is swallowed by the hook *)
PreExecSetsid_ErrorIgnored(setsid_ok) ==
    [spawned |-> TRUE, session |-> IF setsid_ok THEN "new" ELSE "inherited"]

(* Command::setsid: the pre_exec hook calls setsid() in the child; its  *)
(* error is propagated to the parent, whose spawn fails                 *)
PreExecSetsid(setsid_ok) ==
    [spawned |-> setsid_ok, session |-> IF setsid_ok THEN "new" ELSE "inherited"]

(* PIDs the kernel may hand to the child of spawn_with_pid *)
LandedPids == {APP_ROOT_PID, OtherPid}

(* spawn_with_pid(target_pid): fails unless the child got target_pid *)
SpawnWithPid(target_pid, landed) == landed = target_pid

(* app_args.into_iter().map(|s| s.into()).collect(): String -> OsString *)
IntoOsStrings(v) == [i \in 1..Len(v) |-> v[i]]

Panic == [program |-> "unwrap() on None", display_args |-> << >>]

(* Command::new: program = args.next().unwrap(), then cmd.args(args) *)
CommandNew(cmd_args) ==
    IF Len(cmd_args) = 0 THEN Panic
    ELSE [program |-> Head(cmd_args), display_args |-> cmd_args]

(* Command::new(app_cmd), cmd.setsid(), cmd.spawn_with_pid(APP_ROOT_PID)? *)
ScratchSpawn(s) ==
    /\ pc[s] = "c_spawn"
    /\ IF CommandNew(IntoOsStrings(args[s].app_args)) = Panic
       THEN /\ Unwind(s)
            /\ UNCHANGED <<args, run_mode, restored, fetched, steps, child,
                           result, app, fwd, ns_last_pid>>
       ELSE \E landed \in LandedPids, setsid_ok \in BOOLEAN :
         LET hook == PreExecSetsid(setsid_ok)
             ok == hook.spawned /\ SpawnWithPid(APP_ROOT_PID, landed)
         IN /\ landed = APP_ROOT_PID => PidFree(s)
            /\ child' = [child EXCEPT ![s] =
                            IF hook.spawned
                            THEN [pid |-> landed, session |-> hook.session]
                            ELSE NoChild]
            /\ ns_last_pid' = landed
            /\ IF ok
               THEN /\ app' = [state |-> "running", parent |-> s]
                    /\ LeaveLock(s)
                    /\ UNCHANGED <<result, fwd>>
               ELSE /\ Finish(s, Failed(FromScratchContext(Error)), app)
                    /\ UNCHANGED <<args, run_mode, restored, fetched, steps>>
    /\ UNCHANGED <<handlers, sig_recv, wait_status, app_config, image, pgrp,
                   control>>

(* ------------------------------------------------------------------ *)
(* Run::run after the lock is released                                  *)
(* ------------------------------------------------------------------ *)

(* if let Some(cmd) = on_app_ready_cmd { Command::new_shell(&cmd).spawn()?; } *)
OnAppReady(s) ==
    /\ pc[s] = "ready"
    /\ \E on_app_ready_cmd \in {"none", "spawns", "fails"} :
          IF on_app_ready_cmd = "fails"
          THEN Finish(s, Failed(Error), app)
          ELSE Goto(s, "monitor") /\ UNCHANGED <<result, lock, app, fwd>>
    /\ steps' = [steps EXCEPT ![s] = <<>>]
    /\ pgrp' = [pgrp EXCEPT ![s] = {}]
    /\ child' = [child EXCEPT ![s] = NoChild]
    /\ UNCHANGED <<args, run_mode, handlers, sig_recv, wait_status, app_config,
                   image, restored, fetched, control,
                   kernel>>

(* mutant: the handlers are registered before detach is looked at *)
MonitorOrDetach_RegistersFirst(s) ==
    /\ pc[s] = "monitor"
    /\ handlers' = [handlers EXCEPT ![s] = ForwardedSignals]
    /\ \E detach \in BOOLEAN :
          IF detach
          THEN Finish(s, Succeeded, app)
          ELSE Goto(s, "m_unblock") /\ UNCHANGED <<result, lock, app, fwd>>
    /\ UNCHANGED <<args, run_mode, sig_recv, wait_status, app_config, image,
                   restored, fetched, pipeline, control,
                   kernel>>

(* if !detach { monitor_app()?; } Ok(()), up to the registration loop *)
MonitorOrDetach(s) ==
    /\ pc[s] = "monitor"
    /\ \E detach \in BOOLEAN :
          IF detach
          THEN Finish(s, Succeeded, app) /\ UNCHANGED handlers
          ELSE \/ /\ handlers' = [handlers EXCEPT ![s] = ForwardedSignals]
                  /\ Goto(s, "m_unblock")
                  /\ UNCHANGED <<result, lock, app, fwd>>
               \/ \* signal_hook::register(..)? fails
                  \E failed_at \in ForwardedSignals :
                     /\ handlers' = [handlers EXCEPT ![s] =
                                        RegisteredBefore(failed_at)]
                     /\ Finish(s, Failed(Error), app)
    /\ UNCHANGED <<args, run_mode, sig_recv, wait_status, app_config, image,
                   restored, fetched, pipeline, control,
                   kernel>>

(* pthread_sigmask(SIG_UNBLOCK, all)? *)
MonitorUnblock(s) == PlainStep(s, "m_unblock", "m_wait", Error)

(* A signal is delivered to the supervisor once signals are unblocked *)
ReceiveSignal(s, sig) ==
    /\ pc[s] = "m_wait"
    /\ sig_recv[s] = 0
    /\ fwd = 0
    /\ sig_recv' = [sig_recv EXCEPT ![s] = sig]
    /\ UNCHANGED <<pc, args, run_mode, handlers, wait_status, result, lock,
                   app_config, image, restored, fetched, app, fwd, pipeline, control,
                   kernel>>

(* The disposition of the delivered signal: the registered closure      *)
(* `kill(Pid::from_raw(APP_ROOT_PID), sig)`, or the default action      *)
HandleSignal(s) ==
    /\ pc[s] = "m_wait"
    /\ sig_recv[s] # 0
    /\ IF sig_recv[s] \in handlers[s]
       THEN /\ LET k == ForwardKill(sig_recv[s])
               IN fwd' = IF app.state = "running" /\ k.pid = APP_ROOT_PID
                         THEN k.sig ELSE fwd
            /\ sig_recv' = [sig_recv EXCEPT ![s] = 0]
            /\ UNCHANGED <<pc, result, lock, app>>
       ELSE IF sig_recv[s] \in {SIGCHLD, SIGSTOP}
            THEN /\ sig_recv' = [sig_recv EXCEPT ![s] = 0]
                 /\ UNCHANGED <<pc, result, lock, app, fwd>>
            ELSE \* the supervisor dies of the signal
                 /\ Finish(s, Killed, app)
                 /\ UNCHANGED sig_recv
    /\ UNCHANGED <<args, run_mode, handlers, wait_status, app_config, image,
                   restored, fetched, pipeline, control,
                   kernel>>

(* The application handles (or ignores) the forwarded signal *)
AppTakesSignal ==
    /\ fwd # 0
    /\ fwd' = 0
    /\ UNCHANGED <<pc, args, run_mode, handlers, sig_recv, wait_status, result,
                   lock, app_config, image, restored, fetched, app, pipeline, control,
                   kernel>>

Exited(pid, code) == [kind |-> "Exited", pid |-> pid, code |-> code]
Signaled(pid, sig) == [kind |-> "Signaled", pid |-> pid, code |-> sig]
WaitError == [kind |-> "Err", pid |-> 0, code |-> 0]

(* what the kernel hands to wait(): a child that exited, a child killed *)
(* by a signal (real-time signals included), or no child at all        *)
WaitStatuses ==
    {Exited(pid, c) : pid \in {APP_ROOT_PID, OtherPid}, c \in ExitStatuses}
    \cup {Signaled(pid, sig) : pid \in {APP_ROOT_PID, OtherPid},
                               sig \in Signals \cup {SIGRTMIN}}
    \cup {WaitError}

(* nix::sys::wait::wait(): WaitStatus::from_raw converts the terminating *)
(* signal with Signal::try_from, which is an error for a number outside *)
(* the Signal enum; the child has been reaped by then                   *)
FromRaw(raw) ==
    IF raw.kind = "Signaled" /\ raw.code \notin Signals
    THEN [kind |-> "Err", pid |-> raw.pid, code |-> raw.code]
    ELSE raw

(* child_exited(pid, app_exited_f): Err exactly for APP_ROOT_PID *)
ChildExited(pid) == pid = APP_ROOT_PID

(* the exit code monitor_app() puts in the error for a wait status *)
AppExitCode(status) ==
    IF status.kind = "Exited" THEN ExitedCode(status.code)
    ELSE SignaledCode(status.code)

(* one iteration of the loop of monitor_app(): match wait()? { .. } *)
MonitorWait(s, raw) ==
    /\ pc[s] = "m_wait"
    /\ sig_recv[s] = 0
    /\ raw.pid = APP_ROOT_PID => app = [state |-> "running", parent |-> s]
    /\ LET status == FromRaw(raw)
       IN /\ wait_status' = [wait_status EXCEPT ![s] = status]
          /\ IF status.kind = "Err"
             THEN \* `?`: the error of wait() is returned, no killpg()
                  Finish(s, Failed(Error),
                         IF status.pid = APP_ROOT_PID THEN NoApp ELSE app)
             ELSE IF ChildExited(status.pid)
                  THEN \* killpg(pid, SIGKILL); Err(app_exited_f())
                       Finish(s, Failed(WithExitCode(Error, AppExitCode(status))),
                              NoApp)
                  ELSE UNCHANGED <<pc, result, lock, app, fwd>>
    /\ UNCHANGED <<args, run_mode, handlers, sig_recv, app_config, image,
                   restored, fetched, pipeline, control,
                   kernel>>

(* ------------------------------------------------------------------ *)
(* Environment                                                          *)
(* ------------------------------------------------------------------ *)

(* A checkpoint of the running application (the checkpoint command):    *)
(* the application clock only advances; AppConfig is saved with it and  *)
(* goes into the image                                                  *)
DoCheckpoint(url, clock, shards, version) ==
    /\ app.state = "running"
    /\ lock = NoSup
    /\ ValidConfig(app_config)
    /\ clock >= app_config.app_clock
    /\ app_config' = [app_config EXCEPT !.app_clock = clock]
    /\ image' = [at |-> url, version |-> version, num_shards |-> shards,
                 config |-> app_config', floor |-> app_config.app_clock]

(* `fastfreeze checkpoint` run from a shell *)
Checkpoint(url, clock, shards, version) ==
    /\ DoCheckpoint(url, clock, shards, version)
    /\ UNCHANGED <<pc, args, run_mode, handlers, sig_recv, wait_status, result,
                   lock, restored, fetched, app, fwd, pipeline, control,
                   kernel>>

(* An application no supervisor waits for ends *)
OrphanExits ==
    /\ app.state = "running"
    /\ app.parent = "init"
    /\ app' = NoApp
    /\ fwd' = 0
    /\ UNCHANGED <<pc, args, run_mode, handlers, sig_recv, wait_status, result,
                   lock, app_config, image, restored, fetched, pipeline, control,
                   kernel>>

(* ------------------------------------------------------------------ *)
(* Control daemon: main_loop and its clients                            *)
(* ------------------------------------------------------------------ *)
supervisor == <<pc, args, run_mode, handlers, sig_recv, wait_status, result, lock,
                restored, fetched, app, fwd, pipeline, kernel>>
store == <<app_config, image>>

(* the thread of main_loop ends: the poller is dropped with the         *)
(* listener and the connections it owns                                 *)
ThreadEnds(how) ==
    /\ daemon' = how
    /\ poller' = {}
    /\ cur' = NoCur
    /\ conn' = [c \in Conns |->
                  IF conn[c].state = "open"
                  THEN [conn[c] EXCEPT !.state = "dropped", !.inbox = <<>>]
                  ELSE conn[c]]

(* FastFreezeListener::bind()?.into_daemon()?, then the two             *)
(* poller.add(..)? of main_loop                                         *)
DaemonStart ==
    /\ daemon = "off"
    /\ \/ daemon' = "poll" /\ poller' = {"stop", "listener"}
       \/ daemon' = "crashed" /\ poller' = {}
    /\ UNCHANGED <<stop_pipe, conn, cur, cps, cp, supervisor, store>>

(* FastFreezeDaemon::stop: drop(self.stop_pipe_w), then thread.join() *)
DaemonStop ==
    /\ daemon # "off"
    /\ stop_pipe = "open"
    /\ stop_pipe' = "closed"
    /\ UNCHANGED <<daemon, poller, conn, cur, cps, cp, supervisor, store>>

(* a client connects to the socket while a listener is bound *)
ClientConnect(c) ==
    /\ daemon \in {"poll", "checkpoint", "write"}
    /\ conn[c].state = "none"
    /\ conn' = [conn EXCEPT ![c].state = "queued"]
    /\ UNCHANGED <<daemon, poller, stop_pipe, cur, cps, cp, supervisor, store>>

(* a client writes its request, as tests/checkpoint does: one request  *)
(* per connection                                                       *)
ClientSend(c, request) ==
    /\ conn[c].state \in {"queued", "open"}
    /\ conn[c].peer = "open"
    /\ conn[c].sent = <<>>
    /\ conn' = [conn EXCEPT ![c].inbox = request, ![c].sent = request]
    /\ UNCHANGED <<daemon, poller, stop_pipe, cur, cps, cp, supervisor, store>>

(* a client repeats its request on the same connection once the daemon *)
(* has taken the previous one, without reading the acknowledgements     *)
ClientRepeat(c) ==
    /\ conn[c].state = "open"
    /\ conn[c].peer = "open"
    /\ conn[c].sent # <<>>
    /\ conn[c].inbox = <<>>
    /\ cps[c] \in 1..(MaxRequests - 1)
    /\ conn' = [conn EXCEPT ![c].inbox = conn[c].sent]
    /\ UNCHANGED <<daemon, poller, stop_pipe, cur, cps, cp, supervisor, store>>

(* a client reads the acknowledgements waiting in its socket *)
ClientRead(c) ==
    /\ conn[c].peer = "open"
    /\ conn[c].resp # <<>>
    /\ conn' = [conn EXCEPT ![c].resp = <<>>]
    /\ UNCHANGED <<daemon, poller, stop_pipe, cur, cps, cp, supervisor, store>>

(* a client closes its end ("closed"), or the connection breaks ("reset") *)
ClientClose(c, how) ==
    /\ conn[c].state \in {"queued", "open"}
    /\ conn[c].peer = "open"
    /\ conn' = [conn EXCEPT ![c].peer = how]
    /\ UNCHANGED <<daemon, poller, stop_pipe, cur, cps, cp, supervisor, store>>

(* poller.poll(EPOLL_CAPACITY)? fails: main_loop returns the error and  *)
(* the thread panics in expect("Daemon crashed")                        *)
DaemonPollFails ==
    /\ daemon = "poll"
    /\ ThreadEnds("crashed")
    /\ UNCHANGED <<stop_pipe, cps, cp, supervisor, store>>

(* mutant: connections are accepted while a request is being handled *)
DaemonListener_Concurrent ==
    /\ daemon \in {"poll", "checkpoint"}
    /\ "listener" \in poller
    /\ \E c \in Conns :
          /\ conn[c].state = "queued"
          /\ conn' = [conn EXCEPT ![c].state = "open"]
          /\ poller' = poller \cup {c}
          /\ UNCHANGED <<daemon, cur>>
    /\ UNCHANGED <<stop_pipe, cps, cp, supervisor, store>>

(* PollType::Listener: listener.accept()? and poller.add(..)? *)
DaemonListener ==
    /\ daemon = "poll"
    /\ "listener" \in poller
    /\ \E c \in Conns :
          /\ conn[c].state = "queued"
          /\ \/ /\ conn' = [conn EXCEPT ![c].state = "open"]
                /\ poller' = poller \cup {c}
                /\ UNCHANGED <<daemon, cur>>
             \/ ThreadEnds("crashed")
    /\ UNCHANGED <<stop_pipe, cps, cp, supervisor, store>>

(* PollType::Connection, up to the call of do_checkpoint(cp) *)
DaemonConnection(c) ==
    /\ daemon = "poll"
    /\ c \in poller
    /\ conn[c].inbox # <<>> \/ conn[c].peer # "open"
    /\ LET r == Read(conn[c], ZeroBuf)
       IN IF OnRead(r) = "checkpoint"
          THEN /\ cp' = DefaultCheckpoint
               /\ cps' = [cps EXCEPT ![c] = @ + 1]
               /\ cur' = [key |-> c, buf |-> r.buf, size |-> r.size]
               /\ conn' = [conn EXCEPT ![c].inbox = r.rest]
               /\ daemon' = "checkpoint"
               /\ UNCHANGED poller
          ELSE \* let _ = poller.remove(poll_key)
               /\ poller' = poller \ {c}
               /\ conn' = [conn EXCEPT ![c].state = "dropped", ![c].inbox = <<>>]
               /\ UNCHANGED <<daemon, cur, cps, cp>>
    /\ UNCHANGED <<stop_pipe, supervisor, store>>

(* the acknowledgement reaches the socket buffer, unless the peer is    *)
(* gone, and main_loop goes back to poller.poll()                       *)
WriteAll ==
    /\ conn' = [conn EXCEPT ![cur.key].resp =
                   IF conn[cur.key].peer = "open"
                   THEN @ \o Response(cur.buf, cur.size)
                   ELSE @]
    /\ daemon' = "poll"
    /\ cur' = NoCur

(* let _ = do_checkpoint(cp); let _ = connection.write_all(&mut buf):   *)
(* the thread sleeps in write_all() while the buffer has no room        *)
DaemonCheckpointReturns ==
    /\ daemon = "checkpoint"
    /\ \/ \E clock \in 0..MaxClock :
             DoCheckpoint(app_config.image_url, clock, cp.num_shards,
                          ExpectedVersion)
       \/ UNCHANGED store
    /\ IF CanWrite(conn[cur.key])
       THEN WriteAll
       ELSE daemon' = "write" /\ UNCHANGED <<conn, cur>>
    /\ UNCHANGED <<poller, stop_pipe, cps, cp, supervisor>>

(* write_all() returns once the peer has read, or has gone *)
DaemonWriteResumes ==
    /\ daemon = "write"
    /\ CanWrite(conn[cur.key])
    /\ WriteAll
    /\ UNCHANGED <<poller, stop_pipe, cps, cp, supervisor, store>>

(* mutant: the stop event is taken and the loop goes on *)
DaemonStopEvent_Ignored ==
    /\ daemon = "poll"
    /\ "stop" \in poller
    /\ stop_pipe = "closed"
    /\ UNCHANGED vars

(* PollType::Stop: return Ok(()) *)
DaemonStopEvent ==
    /\ daemon = "poll"
    /\ "stop" \in poller
    /\ stop_pipe = "closed"
    /\ ThreadEnds("stopped")
    /\ UNCHANGED <<stop_pipe, cps, cp, supervisor, store>>

(* ------------------------------------------------------------------ *)
(* Specifications                                                       *)
(* ------------------------------------------------------------------ *)
SupStep(s) ==
    \/ AcquireLock(s)
    \/ SmokeCheck(s)
    \/ EnsureNonConflictingPid(s)
    \/ PrepareStore(s)
    \/ ChooseRunMode(s)
    \/ RestoreSpawn(s)
    \/ RestoreUntar(s)
    \/ RestoreConfig(s)
    \/ RestoreTimespec(s)
    \/ RestorePidServer(s)
    \/ RestoreStats(s)
    \/ RestoreSocket(s)
    \/ RestoreCriu(s)
    \/ RestoreWait(s)
    \/ ScratchSave(s)
    \/ ScratchClock(s)
    \/ ScratchVirt(s)
    \/ ScratchSpawn(s)
    \/ OnAppReady(s)
    \/ MonitorOrDetach(s)
    \/ MonitorUnblock(s)
    \/ HandleSignal(s)

AppStep ==
    \/ AppTakesSignal
    \/ OrphanExits

Checkpoints == [url : Urls, clock : 0..MaxClock, shards : 1..MaxShards,
                version : Versions]

(* --- Spec: the run command against the store and the manifest ------- *)
ManifestArgs == {a \in RunArgs : a.preserved_paths = <<"/a", "/b">>}
ManifestCheckpoints == {c \in Checkpoints : c.clock = 0}
FewStatuses ==
    {Exited(APP_ROOT_PID, 0), Exited(APP_ROOT_PID, EXIT_CODE_RESTORE_FAILURE),
     Signaled(APP_ROOT_PID, SIGTERM), Exited(OtherPid, 1), WaitError}
FewSignals == {SIGTERM, SIGKILL}

Next ==
    \/ \E a \in ManifestArgs : Start("s1", a)
    \/ SupStep("s1")
    \/ \E sig \in FewSignals : ReceiveSignal("s1", sig)
    \/ \E status \in FewStatuses : MonitorWait("s1", status)
    \/ AppStep
    \/ \E c \in ManifestCheckpoints :
          Checkpoint(c.url, c.clock, c.shards, c.version)

Spec == Init /\ [][Next]_vars

(* --- SpecConfig: AppConfig through cold start, checkpoint, restore -- *)
ConfigArgs == {a \in RunArgs : ~a.allow_bad_image_version /\ a.pid = 1}
ConfigCheckpoints ==
    {c \in Checkpoints : c.shards = 1 /\ c.version = ExpectedVersion}

NextConfig ==
    \/ \E a \in ConfigArgs : Start("s1", a)
    \/ SupStep("s1")
    \/ \E sig \in FewSignals : ReceiveSignal("s1", sig)
    \/ \E status \in FewStatuses : MonitorWait("s1", status)
    \/ AppStep
    \/ \E c \in ConfigCheckpoints :
          Checkpoint(c.url, c.clock, c.shards, c.version)

SpecConfig == Init /\ [][NextConfig]_vars

(* --- SpecMonitor: the init role, every wait status and signal ------- *)
MonitorArgs ==
    {a \in ManifestArgs : /\ a.image_url = "file:/img1" /\ a.pid = 1
                          /\ ~a.no_restore /\ ~a.allow_bad_image_version}
MonitorCheckpoints ==
    {c \in ManifestCheckpoints : /\ c.url = "file:/img1" /\ c.shards = 1
                                 /\ c.version = ExpectedVersion}

NextMonitor ==
    \/ \E a \in MonitorArgs : Start("s1", a)
    \/ SupStep("s1")
    \/ \E sig \in Signals : ReceiveSignal("s1", sig)
    \/ \E status \in WaitStatuses : MonitorWait("s1", status)
    \/ AppStep
    \/ \E c \in MonitorCheckpoints :
          Checkpoint(c.url, c.clock, c.shards, c.version)

SpecMonitor == Init /\ [][NextMonitor]_vars

(* --- SpecLock: two supervisors on one host -------------------------- *)
LockArgs == {a \in ManifestArgs : /\ a.image_url = "file:/img1" /\ a.pid = 1
                                  /\ ~a.allow_bad_image_version}

NextLock ==
    \/ \E s \in Sups :
          \/ \E a \in LockArgs : Start(s, a)
          \/ SupStep(s)
          \/ \E sig \in FewSignals : ReceiveSignal(s, sig)
          \/ \E status \in FewStatuses : MonitorWait(s, status)
    \/ AppStep
    \/ \E c \in MonitorCheckpoints :
          Checkpoint(c.url, c.clock, c.shards, c.version)

SpecLock == Init /\ [][NextLock]_vars

(* --- SpecDaemon: the control daemon and its clients ----------------- *)
(* The host once `fastfreeze run --image-url file:/img1 -- app` has     *)
(* cold-started the application and entered the init role (a state     *)
(* Spec reaches), with no control daemon started yet                    *)
InitRole ==
    /\ pc = [s \in Sups |-> IF s = "s1" THEN "m_wait" ELSE "idle"]
    /\ args = [s \in Sups |-> NoArgs]
    /\ run_mode = [s \in Sups |-> NoMode]
    /\ handlers = [s \in Sups |-> IF s = "s1" THEN ForwardedSignals ELSE {}]
    /\ sig_recv = [s \in Sups |-> 0]
    /\ wait_status = [s \in Sups |-> NoStatus]
    /\ result = [s \in Sups |-> NoResult]
    /\ restored = [s \in Sups |-> NoConfig]
    /\ fetched = [s \in Sups |-> "none"]
    /\ lock = NoSup
    /\ app_config = InitialConfig("file:/img1", {"/a", "/b"})
    /\ image = NoImage
    /\ app = [state |-> "running", parent |-> "s1"]
    /\ fwd = 0
    /\ steps = [s \in Sups |-> <<>>]
    /\ pgrp = [s \in Sups |-> {}]
    /\ child = [s \in Sups |-> NoChild]
    /\ ns_last_pid = APP_ROOT_PID

NoControl ==
    /\ daemon = "off"
    /\ poller = {}
    /\ stop_pipe = "open"
    /\ conn = [c \in Conns |-> NoConn]
    /\ cur = NoCur
    /\ cps = [c \in Conns |-> 0]
    /\ cp = NoCheckpoint

InitDaemon == InitRole /\ NoControl

ClientStep(c) ==
    \/ ClientConnect(c)
    \/ \E request \in Requests : ClientSend(c, request)
    \/ \E how \in {"closed", "reset"} : ClientClose(c, how)

DaemonStep ==
    \/ DaemonStart
    \/ DaemonStop
    \/ DaemonPollFails
    \/ DaemonListener
    \/ \E c \in Conns : DaemonConnection(c)
    \/ DaemonCheckpointReturns
    \/ DaemonStopEvent

NextDaemon ==
    \/ \E c \in Conns : ClientStep(c)
    \/ DaemonStep

SpecDaemon == InitDaemon /\ [][NextDaemon]_vars

(* --- SpecStop: one client that keeps asking, and stop() ------------- *)
ClientStepStop(c) ==
    \/ ClientConnect(c)
    \/ ClientSend(c, <<Filler(1)>>)
    \/ ClientRepeat(c)
    \/ ClientRead(c)
    \/ \E how \in {"closed", "reset"} : ClientClose(c, how)

NextStop ==
    \/ ClientStepStop("c1")
    \/ DaemonStep
    \/ DaemonWriteResumes

(* the daemon thread is scheduled: a step of main_loop that can be      *)
(* taken is taken; clients are free to do nothing                       *)
DaemonFairness ==
    /\ WF_vars(DaemonStopEvent)
    /\ WF_vars(DaemonListener)
    /\ WF_vars(\E c \in Conns : DaemonConnection(c))
    /\ WF_vars(DaemonCheckpointReturns)
    /\ WF_vars(DaemonWriteResumes)

SpecStop == InitDaemon /\ [][NextStop]_vars /\ DaemonFairness

(* ------------------------------------------------------------------ *)
(* Properties                                                           *)
(* ------------------------------------------------------------------ *)
RestorePcs == {"r_spawn", "r_untar", "r_config", "r_timespec", "r_pidsrv",
               "r_stats", "r_socket", "r_criu", "r_wait"}
ScratchPcs == {"c_save", "c_clock", "c_virt", "c_spawn"}
LockedPcs == {"smoke", "pid_check", "prepare", "run_mode"}
                 \cup RestorePcs \cup ScratchPcs
(* positions of restore() after config.save() *)
SavedPcs == {"r_timespec", "r_pidsrv", "r_stats", "r_socket", "r_criu", "r_wait"}
FetchErrors == {"store_err", "fetch_err"}

CallerPaths(s) == {args[s].preserved_paths[i] :
                      i \in 1..Len(args[s].preserved_paths)}

(* C1: determine_run_mode returns Restore, with one download command per *)
(* shard, exactly when a manifest is present at the URL and accepted    *)
(* (expected version, or allow_bad_image_version); FromScratch when it  *)
(* is absent or refused; an error exactly when the lookup or the fetch  *)
(* itself fails.                                                        *)
C1_RunModeFollowsManifest ==
    \A s \in Sups :
        LET present == image # NoImage /\ image.at = args[s].image_url
            accepted == present /\ (image.version = ExpectedVersion
                                    \/ args[s].allow_bad_image_version)
            cmds == run_mode[s].shard_download_cmds
        IN /\ (lock = s /\ fetched[s] # "none") =>
                /\ fetched[s] \notin FetchErrors
                /\ accepted =>
                     /\ run_mode[s].kind = "Restore"
                     /\ Len(cmds) = image.num_shards
                     /\ \A i \in 1..Len(cmds) : cmds[i][2] = i
                /\ ~accepted => run_mode[s] = FromScratch
           /\ fetched[s] \in FetchErrors <=>
                (pc[s] = "done" /\ fetched[s] # "none" /\ run_mode[s] = NoMode)

C1_Witness ==
    \E s \in Sups : /\ pc[s] = "r_spawn"
                    /\ image.version # ExpectedVersion
                    /\ Len(run_mode[s].shard_download_cmds) = 2

(* C2: a run that ends on a manifest fetch failure or inside the restore *)
(* pipeline exits with code 171; a run that ends inside the cold-start  *)
(* pipeline never exits with 171.                                       *)
C2_ExitCode171 ==
    \A s \in Sups :
        pc[s] = "done" =>
            /\ fetched[s] \in FetchErrors =>
                 result[s] = [ok |-> FALSE, exit_code |-> 171]
            /\ run_mode[s].kind = "Restore" =>
                 result[s] = [ok |-> FALSE, exit_code |-> 171]
            /\ run_mode[s].kind = "FromScratch" =>
                 (~result[s].ok /\ result[s].exit_code # 171)

C2_Witness ==
    \E s \in Sups : /\ pc[s] = "done"
                    /\ run_mode[s].kind = "Restore"
                    /\ result[s].exit_code = 171

(* C3 as stated: with --no-restore the manifest is never fetched, the   *)
(* restore pipeline is never entered, and the run never ends with exit  *)
(* code 171.                                                            *)
C3_Original ==
    \A s \in Sups :
        args[s].no_restore =>
            /\ fetched[s] = "none"
            /\ pc[s] \notin RestorePcs
            /\ run_mode[s].kind # "Restore"
            /\ pc[s] = "done" => result[s].exit_code # 171

(* C3 amended: with --no-restore the manifest is never fetched and the  *)
(* restore pipeline is never entered; the run ends with exit code 171   *)
(* only when the application itself exited with status 171.             *)
C3_NoRestore ==
    \A s \in Sups :
        args[s].no_restore =>
            /\ fetched[s] = "none"
            /\ pc[s] \notin RestorePcs
            /\ run_mode[s].kind # "Restore"
            /\ (pc[s] = "done" /\ result[s].exit_code = 171) =>
                  wait_status[s] = Exited(APP_ROOT_PID, 171)

C3_Witness ==
    \E s \in Sups : /\ args[s].no_restore
                    /\ pc[s] = "c_save"
                    /\ image # NoImage
                    /\ image.at = args[s].image_url
                    /\ image.version = ExpectedVersion

(* C4: when APP_ROOT_PID is reaped as exited with code c, the group of  *)
(* APP_ROOT_PID is killed and monitor_app returns an error whose exit   *)
(* code is exactly c, also for c = 0.                                   *)
C4_ExitCodeOfApp ==
    \A s \in Sups :
        (pc[s] = "done" /\ wait_status[s].kind = "Exited"
                        /\ wait_status[s].pid = APP_ROOT_PID) =>
            /\ result[s] = [ok |-> FALSE, exit_code |-> wait_status[s].code]
            /\ app = NoApp

C4_Witness ==
    \E s \in Sups : /\ pc[s] = "done"
                    /\ wait_status[s] = Exited(APP_ROOT_PID, 0)
                    /\ result[s].exit_code = 0

(* C5: when APP_ROOT_PID is reaped as killed by signal sig, the group   *)
(* of APP_ROOT_PID is killed and the exit code is 128 + sig, which      *)
(* stays within 0..255 for every signal of the platform set.            *)
C5_ExitCodeOfSignal ==
    \A s \in Sups :
        (pc[s] = "done" /\ wait_status[s].kind = "Signaled"
                        /\ wait_status[s].pid = APP_ROOT_PID) =>
            /\ result[s] = [ok |-> FALSE,
                            exit_code |-> 128 + wait_status[s].code]
            /\ result[s].exit_code <= 255
            /\ app = NoApp

C5_Witness ==
    \E s \in Sups : /\ pc[s] = "done"
                    /\ wait_status[s] = Signaled(APP_ROOT_PID, SIGTERM)
                    /\ result[s].exit_code = 143

C7_PreservedPathsUnion ==
    \A s \in Sups :
        (pc[s] \in SavedPcs /\ ValidConfig(app_config)) =>
            app_config.preserved_paths =
                image.config.preserved_paths \cup CallerPaths(s)

C7_Witness ==
    \E s \in Sups : /\ pc[s] = "r_wait"
                    /\ image.config.preserved_paths = {"/a", "/b"}
                    /\ args[s].preserved_paths = <<"/b", "/c", "/b">>
                    /\ app_config.preserved_paths = {"/a", "/b", "/c"}

(* C8: once restore() has saved the AppConfig, its image_url is the URL *)
(* of the restoring run and its app_clock is the one of the image,      *)
(* which is not below the clock the checkpointed run started from.      *)
C8_RoundTrip ==
    \A s \in Sups :
        (pc[s] \in SavedPcs /\ ValidConfig(app_config)) =>
            /\ app_config.image_url = args[s].image_url
            /\ app_config.app_clock = image.config.app_clock
            /\ app_config.app_clock >= image.floor
            /\ image.floor >= 0

C8_Witness ==
    \E s \in Sups : /\ pc[s] = "r_wait"
                    /\ image.config.image_url # args[s].image_url
                    /\ app_config.image_url = args[s].image_url
                    /\ image.floor = 1
                    /\ app_config.app_clock = 1

(* C9: a supervisor inside the cold-start or restore pipeline has a PID *)
(* strictly below APP_ROOT_PID.                                         *)
C9_PidBelowAppRoot ==
    \A s \in Sups :
        pc[s] \in {"prepare", "run_mode"} \cup RestorePcs \cup ScratchPcs =>
            args[s].pid < APP_ROOT_PID

(* C10: the lock is held by a supervisor exactly while it is between    *)
(* the smoke test and the end of the pipeline, never after (ready       *)
(* command, init role, exit), and two supervisors are never in that     *)
(* section together.                                                    *)
C10_LockHeld ==
    /\ \A s \in Sups : pc[s] \in LockedPcs <=> lock = s
    /\ \A s, t \in Sups :
          (pc[s] \in LockedPcs /\ pc[t] \in LockedPcs) => s = t

C10_Witness ==
    \E s, t \in Sups : /\ pc[s] = "r_wait"
                       /\ pc[t] = "lock"

(* statements of restore(), in the order of the source *)
RestoreOrder == <<"r_spawn", "r_untar", "r_config", "r_timespec", "r_pidsrv",
                  "r_stats", "r_socket", "r_criu", "r_wait", "app_ready">>
(* statements of run_from_scratch(), in the order of the source *)
ScratchOrder == <<"c_save", "c_clock", "c_virt", "c_spawn", "app_ready">>

Prefix(a, b) == Len(a) <= Len(b) /\ a = SubSeq(b, 1, Len(a))
Completed(s) == {steps[s][i] : i \in 1..Len(steps[s])}
Kinds(g) == {m.kind : m \in g}

(* restore() ended in `pgrp.wait_for_success()` returning an error *)
WaitFailed(s) ==
    /\ pc[s] = "done"
    /\ steps[s] = SubSeq(RestoreOrder, 1, 8)
    /\ \E m \in pgrp[s] : m.kind = "criu"

(* restore() returned Ok *)
WaitSucceeded(s) == steps[s] = RestoreOrder

(* C14: wait_for_success() of the restore group succeeds only once      *)
(* every monitored member has exited with 0; at the first failure the   *)
(* members still running are terminated and drained and that failure is *)
(* the one returned; the PID server, a daemon member, is never waited   *)
(* for, its status never decides the result, and it is terminated with  *)
(* the group.                                                           *)
C14_WaitForSuccess ==
    \A s \in Sups :
        /\ WaitSucceeded(s) =>
              /\ {"streamer", "criu"} \subseteq Kinds(Monitored(pgrp[s]))
              /\ \A m \in Monitored(pgrp[s]) : m.state = "exited_ok"
              /\ Running(pgrp[s]) = {}
        /\ WaitFailed(s) =>
              /\ Cardinality({m \in Monitored(pgrp[s]) :
                                 m.state = "exited_err"}) = 1
              /\ \A m \in Monitored(pgrp[s]) :
                    m.state \in {"exited_ok", "exited_err", "killed"}
              /\ Running(pgrp[s]) = {}
              /\ ~result[s].ok
        /\ \A m \in pgrp[s] :
              /\ m.kind = "set_ns_last_pid" <=> m.daemon
              /\ (m.daemon /\ pc[s] = "r_wait") => m.state # "killed"

C14_Witness ==
    \E s \in Sups :
        /\ WaitFailed(s)
        /\ \E m \in Monitored(pgrp[s]) : m.state = "killed"
        /\ \E m \in Monitored(pgrp[s]) : m.state = "exited_ok"
        /\ \E m \in pgrp[s] : m.daemon /\ m.state = "killed"

(* C15: the file at APP_CONFIG_PATH is at all times absent or a         *)
(* complete AppConfig, never empty or partial.                          *)
C15_AtomicSave == app_config # BrokenConfig

(* C16: a cold start that reports success has created the application  *)
(* root in a new session with PID APP_ROOT_PID; a child that landed on  *)
(* another PID makes the cold start fail.                               *)
C16_ColdStartPid ==
    \A s \in Sups :
        /\ steps[s] = ScratchOrder =>
              /\ child[s] = [pid |-> APP_ROOT_PID, session |-> "new"]
              /\ pc[s] = "ready"
              /\ app = [state |-> "running", parent |-> s]
        /\ (child[s] # NoChild /\ child[s].pid # APP_ROOT_PID) =>
              /\ pc[s] = "done"
              /\ ~result[s].ok
              /\ "app_ready" \notin Completed(s)

C16_Witness ==
    \E s \in Sups : /\ pc[s] = "ready"
                    /\ steps[s] = ScratchOrder
                    /\ child[s] = [pid |-> APP_ROOT_PID, session |-> "new"]

(* C18: when the final wait_for_success() of restore() fails, the group *)
(* of APP_ROOT_PID is killed, the run ends with the restore-failure     *)
(* exit code, "Application is ready" is never logged and the init role  *)
(* (signal handlers, wait loop) is never entered.                       *)
C18_RestoreWaitFailure ==
    \A s \in Sups :
        WaitFailed(s) =>
            /\ app = NoApp
            /\ result[s] = Failed(RestoreContext(Error))
            /\ result[s].exit_code = EXIT_CODE_RESTORE_FAILURE
            /\ "app_ready" \notin Completed(s)
            /\ handlers[s] = {}
            /\ wait_status[s] = NoStatus
            /\ lock # s

(* the restore engine had brought the application back before another  *)
(* member of the group failed                                           *)
C18_Witness ==
    \E s \in Sups :
        /\ WaitFailed(s)
        /\ \E m \in pgrp[s] : m.kind = "criu" /\ m.state = "exited_ok"
        /\ \E m \in pgrp[s] : m.kind = "downloader" /\ m.state = "exited_err"

(* C19: the statements of restore() complete in the order of the        *)
(* source: untar has exited successfully before the AppConfig is        *)
(* loaded; the AppConfig is saved and the clock adjusted before the PID *)
(* server is spawned; the streamer has reported its stats and its       *)
(* socket before the restore engine is spawned; after a failure nothing *)
(* later runs.                                                          *)
C19_RestoreOrder ==
    \A s \in Sups :
        /\ (steps[s] # <<>> /\ steps[s][1] = "r_spawn") =>
              Prefix(steps[s], RestoreOrder)
        /\ pc[s] \in RestorePcs =>
              \E n \in 0..8 : /\ steps[s] = SubSeq(RestoreOrder, 1, n)
                              /\ pc[s] = RestoreOrder[n + 1]
        /\ "r_config" \in Completed(s) =>
              /\ "r_untar" \in Completed(s)
              /\ restored[s] # NoConfig \/ pc[s] \in {"ready", "done"}
        /\ "set_ns_last_pid" \in Kinds(pgrp[s]) <=> "r_pidsrv" \in Completed(s)
        /\ "r_pidsrv" \in Completed(s) =>
              {"r_config", "r_timespec"} \subseteq Completed(s)
        /\ "criu" \in Kinds(pgrp[s]) <=> "r_criu" \in Completed(s)
        /\ "r_criu" \in Completed(s) =>
              {"r_stats", "r_socket"} \subseteq Completed(s)
        /\ "streamer" \in Kinds(pgrp[s]) <=> "r_spawn" \in Completed(s)

(* a restore that failed while waiting for the streamer's socket *)
C19_Witness ==
    \E s \in Sups :
        /\ pc[s] = "done"
        /\ steps[s] = SubSeq(RestoreOrder, 1, 6)
        /\ Kinds(pgrp[s]) = {"streamer", "downloader", "set_ns_last_pid"}

(* C20: run_from_scratch() saves the AppConfig (app_clock 0, the        *)
(* caller's image_url and preserved_paths), then initialises the clock  *)
(* file, then enables virtualization, and only then spawns the          *)
(* application; when one of them fails the application is not spawned.  *)
C20_ColdStartOrder ==
    \A s \in Sups :
        /\ (steps[s] # <<>> /\ steps[s][1] = "c_save") =>
              Prefix(steps[s], ScratchOrder)
        /\ pc[s] \in ScratchPcs =>
              \E n \in 0..3 : /\ steps[s] = SubSeq(ScratchOrder, 1, n)
                              /\ pc[s] = ScratchOrder[n + 1]
        /\ pc[s] \in {"c_clock", "c_virt", "c_spawn"} =>
              /\ app_config.app_clock = 0
              /\ app_config.image_url = args[s].image_url
              /\ app_config.preserved_paths = CallerPaths(s)
        /\ child[s] # NoChild =>
              {"c_save", "c_clock", "c_virt"} \subseteq Completed(s)

(* virtualization could not be enabled: no application was spawned *)
C20_Witness ==
    \E s \in Sups :
        /\ pc[s] = "done"
        /\ steps[s] = <<"c_save", "c_clock">>
        /\ child[s] = NoChild
        /\ app = NoApp
        /\ app_config.app_clock = 0

(* the daemon thread is inside main_loop *)
Serving == daemon \in {"poll", "checkpoint", "write"}

(* main_loop is inside do_checkpoint() for a request of connection c *)
Checkpointing(c) == daemon = "checkpoint" /\ cur.key = c

(* the next read of connection c returns 0 bytes or an error *)
AtEof(c) ==
    /\ conn[c].peer # "open"
    /\ conn[c].inbox = <<>> \/ conn[c].peer = "reset"

(* C11: a readable connection with a request of 1..BufSize bytes makes  *)
(* main_loop call do_checkpoint() exactly once, with the default        *)
(* parameters whatever the bytes are; the acknowledgement is written to *)
(* that connection only once do_checkpoint() has returned, with success *)
(* or not, and the connection stays registered.                         *)
C11_RequestTriggersCheckpoint ==
    \A c \in Conns :
        /\ cps[c] <= 1
        /\ cps[c] = 1 => conn[c].sent # <<>>
        /\ cps[c] = 1 =>
              /\ cp.leave_running
              /\ cp.num_shards = 1
              /\ cp.cpu_budget = "Medium"
              /\ cp.passphrase_file = "None"
              /\ cp.image_url = "None"
              /\ cp.preserved_paths = {}
        /\ (conn[c].state = "open" /\ conn[c].sent # <<>> /\ conn[c].inbox = <<>>)
              => cps[c] = 1
        /\ Checkpointing(c) =>
              /\ cps[c] = 1
              /\ conn[c].resp = <<>>
              /\ cur.size = Len(conn[c].sent)
              /\ SubSeq(cur.buf, 1, cur.size) = conn[c].sent
        /\ conn[c].resp # <<>> => cps[c] = 1 /\ ~Checkpointing(c)
        /\ (cps[c] = 1 /\ Serving /\ ~AtEof(c)) => c \in poller
        /\ image # NoImage =>
              image.num_shards = 1 /\ image.at = app_config.image_url

(* two connections with different requests were both answered, after a *)
(* checkpoint that succeeded                                            *)
C11_Witness ==
    \E c, d \in Conns :
        /\ conn[c].resp # <<>> /\ conn[d].resp # <<>>
        /\ conn[c].sent # conn[d].sent
        /\ {c, d} \subseteq poller
        /\ image # NoImage

(* C12: the response to a request of n bytes is those n bytes, in       *)
(* order, and nothing else.                                             *)
C12_Echo ==
    \A c \in Conns : conn[c].resp # <<>> => conn[c].resp = conn[c].sent

(* C13: a connection whose read returns 0 bytes or an error is removed  *)
(* from the poller without a checkpoint and without an acknowledgement; *)
(* the listener, the stop pipe and the other connections stay           *)
(* registered.                                                          *)
C13_EofDropsConnection ==
    [][\A c \in Conns :
          (DaemonConnection(c) /\ AtEof(c)) =>
              /\ poller' = poller \ {c}
              /\ {"stop", "listener"} \subseteq poller'
              /\ cps' = cps
              /\ cp' = cp
              /\ daemon' = "poll"
              /\ \A d \in Conns : conn'[d].resp = conn[d].resp
              /\ \A d \in Conns \ {c} : conn'[d] = conn[d]
              /\ UNCHANGED store]_vars

C13_Witness ==
    \E c, d \in Conns :
        /\ Serving
        /\ conn[c].state = "dropped"
        /\ conn[c].sent = <<>>
        /\ cps[c] = 0
        /\ conn[d].state = "open"
        /\ poller = {"stop", "listener", d}

(* C17: while the supervisor is in the init role, a control daemon that *)
(* was started and not asked to stop is serving the control socket.     *)
C17_DaemonServes ==
    \A s \in Sups :
        (pc[s] = "m_wait" /\ daemon # "off" /\ stop_pipe = "open") =>
            /\ Serving
            /\ "listener" \in poller

(* positions of Run::run before monitor_app() is called *)
BeforeMonitorPcs == {"idle", "lock", "ready", "monitor"} \cup LockedPcs

(* C21: forwarding handlers are installed only by monitor_app(), which  *)
(* is reached only after the pipeline returned Ok, when the application *)
(* root occupies APP_ROOT_PID as a child of the supervisor; a run whose *)
(* pipeline failed, or a detached run, ends with no handler installed,  *)
(* and a signal is forwarded only to an application that is there.      *)
C21_ForwardAfterReady ==
    /\ [](\A s \in Sups :
            /\ pc[s] \in BeforeMonitorPcs => handlers[s] = {}
            /\ pc[s] = "ready" =>
                  /\ steps[s] \in {RestoreOrder, ScratchOrder}
                  /\ app = [state |-> "running", parent |-> s]
            /\ pc[s] \in {"monitor", "m_unblock", "m_wait"} =>
                  app = [state |-> "running", parent |-> s]
            /\ (pc[s] = "done" /\ steps[s] # <<>>) => handlers[s] = {}
            /\ (pc[s] = "done" /\ result[s].ok) => handlers[s] = {}
            /\ pc[s] \in {"m_unblock", "m_wait"} => handlers[s] # {}
            /\ handlers[s] \subseteq ForwardedSignals)
    /\ [](fwd # 0 => app.state = "running")
    /\ [][\A s \in Sups :
            handlers'[s] # handlers[s] =>
                \/ /\ pc[s] = "monitor"
                   /\ pc'[s] \in {"m_unblock", "done"}
                   /\ app = [state |-> "running", parent |-> s]
                \/ /\ pc[s] = "done"
                   /\ pc'[s] = "lock"
                   /\ handlers'[s] = {}]_vars

(* SIGTERM was forwarded to the application while the supervisor waits *)
C21_Witness ==
    \E s \in Sups : /\ pc[s] = "m_wait"
                    /\ handlers[s] = ForwardedSignals
                    /\ fwd = SIGTERM
                    /\ app = [state |-> "running", parent |-> s]

(* C22: when the signal mask is unblocked a handler is in place for     *)
(* every signal of the platform set but SIGCHLD and the forbidden ones; *)
(* a handler sends its own signal with kill() to APP_ROOT_PID and does  *)
(* nothing else, so SIGTERM and SIGINT reach the application.           *)
C22_HandlersBeforeUnmask ==
    /\ [](\A s \in Sups :
            pc[s] \in {"m_unblock", "m_wait"} =>
                /\ handlers[s] = Signals \ ({SIGCHLD} \cup FORBIDDEN)
                /\ {SIGTERM, SIGINT} \subseteq handlers[s]
                /\ \A sig \in handlers[s] :
                      ForwardKill(sig) =
                          [call |-> "kill", pid |-> APP_ROOT_PID, sig |-> sig])
    /\ [](\A s \in Sups : sig_recv[s] # 0 => pc[s] \in {"m_wait", "done"})
    /\ [][\A s \in Sups :
            (HandleSignal(s) /\ sig_recv[s] \in handlers[s]) =>
                /\ fwd' = sig_recv[s]
                /\ UNCHANGED <<pc, result, lock, app, handlers, wait_status,
                               store, pipeline, control>>]_vars

(* SIGINT reached the application through the supervisor *)
C22_Witness ==
    \E s \in Sups : /\ pc[s] = "m_wait"
                    /\ sig_recv[s] = 0
                    /\ fwd = SIGINT
                    /\ app = [state |-> "running", parent |-> s]

(* C23: monitor_app() ends only with an error, and only because         *)
(* APP_ROOT_PID was reaped or wait() found nothing to reap; reaping     *)
(* another child, exited or killed by any signal, ends nothing and      *)
(* sends nothing.                                                       *)
C23_ReapOthers ==
    /\ \A s \in Sups :
          /\ (pc[s] = "done" /\ wait_status[s] # NoStatus) =>
                /\ ~result[s].ok
                /\ \/ wait_status[s].pid = APP_ROOT_PID
                   \/ wait_status[s] = WaitError
                   \/ result[s] = Killed
          /\ (pc[s] = "m_wait" /\ wait_status[s] # NoStatus) =>
                /\ wait_status[s].pid = OtherPid
                /\ app = [state |-> "running", parent |-> s]

(* the invocation of s never gets past the PID check *)
StopsAtPidCheck(s) ==
    /\ pc[s] \in {"lock", "smoke", "pid_check", "done"}
    /\ fetched[s] = "none"
    /\ run_mode[s] = NoMode
    /\ steps[s] = <<>>
    /\ pgrp[s] = {}
    /\ child[s] = NoChild
    /\ restored[s] = NoConfig

(* the PID check of s finds the PID too high *)
PidCheckFails(s) == EnsureNonConflictingPid(s) /\ PidTooHigh(args[s].pid)

(* an invocation starts right after the helper wrote MIN_PID *)
StartsHealed(s) == ns_last_pid = MIN_PID /\ pc[s] # "lock" /\ pc'[s] = "lock"

Joined == daemon \in {"stopped", "crashed"}

(* the thread sleeps in write_all(): the peer leaves SockBufSize bytes  *)
(* of acknowledgements unread                                           *)
BlockedInWrite == daemon = "write" /\ ~CanWrite(conn[cur.key])

(* C25 as stated: once stop() has closed the stop pipe, the thread ends *)
(* and stop() returns, whatever the daemon was doing; the step that     *)
(* takes the stop event triggers no checkpoint.                         *)
C25_Original ==
    /\ (stop_pipe = "closed") ~> Joined
    /\ [][DaemonStopEvent => (UNCHANGED <<cps, cp, store>> /\ daemon' = "stopped")]_vars

(* C25 amended: once stop() has closed the stop pipe, the thread ends   *)
(* and stop() returns, unless the thread sleeps in write_all() for a    *)
(* peer that does not read; the step that takes the stop event triggers *)
(* no checkpoint.                                                       *)
C25_StopTerminates ==
    /\ (stop_pipe = "closed") ~> (Joined \/ BlockedInWrite)
    /\ [][DaemonStopEvent => (UNCHANGED <<cps, cp, store>> /\ daemon' = "stopped")]_vars
    /\ [](Joined => (poller = {} /\ cur = NoCur))

(* the daemon served a request, acknowledged it, and was then stopped *)
C25_Witness ==
    /\ stop_pipe = "closed"
    /\ daemon = "stopped"
    /\ \E c \in Conns : cps[c] = 1 /\ conn[c].resp # <<>>

(* main_loop is between the read of a request and the end of the write *)
(* of its acknowledgement                                               *)
Handling == daemon \in {"checkpoint", "write"}

(* C26: main_loop handles one request at a time: a checkpoint attempt   *)
(* starts only from poller.poll(), for one connection; until its        *)
(* acknowledgement is written no connection is accepted, read or        *)
(* dropped and no other attempt starts; the requests of the other       *)
(* connections wait in their sockets.                                   *)
C26_OneAtATime ==
    /\ [](Handling <=> cur # NoCur)
    /\ [](Handling =>
            /\ cur.key \in poller
            /\ conn[cur.key].state = "open"
            /\ cps[cur.key] >= 1)
    /\ [][Handling =>
            /\ poller' = poller
            /\ cps' = cps
            /\ cp' = cp
            /\ daemon' \in {"checkpoint", "write", "poll"}
            /\ \A c \in Conns :
                  /\ conn'[c].state = "open" <=> conn[c].state = "open"
                  /\ Len(conn'[c].inbox) >= Len(conn[c].inbox)
                  /\ c # cur.key => conn'[c].resp = conn[c].resp]_vars
    /\ [][\A c \in Conns :
            cps'[c] # cps[c] =>
                /\ daemon = "poll" /\ daemon' = "checkpoint"
                /\ cur'.key = c
                /\ cps'[c] = cps[c] + 1
                /\ \A d \in Conns \ {c} : cps'[d] = cps[d]]_vars

(* a request and a new connection wait while another request is handled *)
C26_Witness ==
    \E c, d \in Conns :
        /\ Checkpointing(c)
        /\ conn[d].state = "open"
        /\ conn[d].inbox # <<>>
        /\ cps[d] = 0

(* C27: the ready command is spawned only from the position after the   *)
(* lock closure returned Ok, reached once per run from the end of a     *)
(* pipeline with the lock released and the application running; the     *)
(* supervisor does not wait there, and whatever becomes of the ready    *)
(* command, failing to start included, it goes on to `if !detach`.      *)
C27_FireAndForget ==
    /\ [](\A s \in Sups :
            pc[s] = "ready" =>
                /\ lock # s
                /\ steps[s] \in {RestoreOrder, ScratchOrder}
                /\ app = [state |-> "running", parent |-> s])
    /\ [][\A s \in Sups :
            (pc[s] # "ready" /\ pc'[s] = "ready") =>
                pc[s] \in {"r_wait", "c_spawn"}]_vars
    /\ [](\A s \in Sups : pc[s] = "ready" => ENABLED OnAppReady(s))
    /\ [][\A s \in Sups :
            OnAppReady(s) =>
                /\ pc'[s] = "monitor"
                /\ result'[s] = NoResult
                /\ app' = app]_vars

(* C28: Command::new is never handed an empty argument list: whenever  *)
(* run_from_scratch is about to build the application command, the run  *)
(* given no positional argument included, the command has at least one  *)
(* element, and no run ends by the panic of unwrap().                   *)
C28_NeverEmptyArgs ==
    [][\A s \in Sups :
        ScratchSpawn(s) =>
            /\ Len(IntoOsStrings(args[s].app_args)) >= 1
            /\ pc'[s] # "panicked"]_vars

====
